---------------------------- MODULE Spec2Model ----------------------------
(***************************************************************************)
(* EIP-4844 fee-market simulation (eip-4844-sim.ipynb): the radCAD model   *)
(* of the "Basic Case".  One timestep is two partial state update blocks:  *)
(* substep 1 sets `demand` (generate_demand), substep 2 runs the policy    *)
(* build_block and feeds its Block to update_excess_data_gas,              *)
(* update_price and record_latest_block, each of which reads the state as  *)
(* it was when the substep began.                                          *)
(*                                                                         *)
(* Python numbers are unbounded integers and floats; TLC integers are 32   *)
(* bits wide.  The price, a float in the notebook, is an exact rational    *)
(* [n, d] here (rounding of the float is not modelled), and the two        *)
(* products that exceed 32 bits (the Taylor term of fake_exponential and   *)
(* gas_used * priority_fee) are computed exactly in two limbs.             *)
(***************************************************************************)
EXTENDS Integers, Sequences, FiniteSets, TLC

VARIABLES price, excess_data_gas, demand, latest_block, timestep, substep, h, fe

vars == <<price, excess_data_gas, demand, latest_block, timestep, substep, h, fe>>

---------------------------------------------------------------------------
(* constants = {...} *)
BLOCK_RESOURCE_LIMITS == 30000000
BLOCK_RESOURCE_TARGETS == 15000000
BASEFEE_MAX_CHANGE_DENOMINATOR == 8
MAX_DATA_GAS_PER_BLOCK == 524288
TARGET_DATA_GAS_PER_BLOCK == 262144
DATA_GAS_PER_BLOB == 131072
MIN_DATA_GASPRICE == 1
DATA_GASPRICE_UPDATE_FRACTION == 2225652

(* Bounds of the model: timesteps run (simulation_parameters['T'] is 100), *)
(* and transactions in one step's demand mapping when steps are chained.   *)
MaxSteps == 3
MaxTxs == 1

(* Transactions in the demand mapping of the single step of SpecStep. *)
MaxDemand == 3

(* Transactions in the demand mapping of the single step of SpecMalformed. *)
MaxMalformedDemand == 2

(* Bounds of SpecExp: the factors and denominators fake_exponential is     *)
(* called with, the number of further calls on a growing numerator, and    *)
(* the iterations of its loop that are followed.                           *)
MaxFactor == 2
MaxDenominator == 3
MaxCalls == 12
MaxIterations == 64

(* An iteration count a capped oracle would stop at. *)
IterationCap == 16

---------------------------------------------------------------------------
(* Exact arithmetic.                                                       *)

Abs(x) == IF x < 0 THEN -x ELSE x

RECURSIVE GCD(_, _)
GCD(a, b) == IF b = 0 THEN a ELSE GCD(b, a % b)

(* The rational n/d in lowest terms with a positive denominator. *)
Rat(n, d) ==
    LET s == IF d < 0 THEN -1 ELSE 1
        g == GCD(Abs(n), Abs(d))
    IN  [n |-> (s * n) \div g, d |-> (s * d) \div g]

RMul(a, b) ==
    LET x == Rat(a.n, b.d)
        y == Rat(b.n, a.d)
    IN  Rat(x.n * y.n, x.d * y.d)

RAdd(a, b) == Rat(a.n * b.d + b.n * a.d, a.d * b.d)

RLeq(a, b) == a.n * b.d <= b.n * a.d

RLess(a, b) == a.n * b.d < b.n * a.d

(* <<q, r>> with r * b = q * c + r' and 0 <= r' < c, for 0 <= r < c < 2^26 *)
(* and b >= 0, taking b four bits at a time: no intermediate value exceeds *)
(* 32 bits when the quotient fits.                                         *)
RECURSIVE MulDivMod(_, _, _)
MulDivMod(r, b, c) ==
    IF b = 0 THEN <<0, 0>>
    ELSE LET hi == MulDivMod(r, b \div 16, c)
             t == 16 * hi[2] + r * (b % 16)
         IN  <<16 * hi[1] + (t \div c), t % c>>

(* Variant: the quotient rounded up. *)
MulDiv_rounded_up(a, b, c) ==
    (a \div c) * b + MulDivMod(a % c, b, c)[1]
        + (IF MulDivMod(a % c, b, c)[2] > 0 THEN 1 ELSE 0)

(* (a * b) // c for a, b >= 0 and 0 < c < 2^26 *)
MulDiv(a, b, c) == (a \div c) * b + MulDivMod(a % c, b, c)[1]

Limb == 32768

(* a * b as <<hi, lo>> with a * b = hi * Limb + lo, 0 <= lo < Limb, for    *)
(* 0 <= a < 2^30 and 0 <= b < Limb * 2.                                    *)
WideMul(a, b) ==
    LET a1 == a \div Limb
        a0 == a % Limb
    IN  <<a1 * b + ((a0 * b) \div Limb), (a0 * b) % Limb>>

WideLeq(x, y) == x[1] < y[1] \/ (x[1] = y[1] /\ x[2] <= y[2])

WideLess(x, y) == x[1] < y[1] \/ (x[1] = y[1] /\ x[2] < y[2])

---------------------------------------------------------------------------
(* fake_exponential: the loop, with its locals as parameters. *)
RECURSIVE fake_exponential_loop(_, _, _, _, _)
fake_exponential_loop(i, output, numerator_accum, numerator, denominator) ==
    IF numerator_accum > 0
    THEN fake_exponential_loop(i + 1,
                               output + numerator_accum,
                               MulDiv(numerator_accum, numerator, denominator * i),
                               numerator, denominator)
    ELSE output \div denominator

fake_exponential(factor, numerator, denominator) ==
    fake_exponential_loop(1, 0, factor * denominator, numerator, denominator)

calc_price_data(excess) ==
    fake_exponential(MIN_DATA_GASPRICE, excess, DATA_GASPRICE_UPDATE_FRACTION)

---------------------------------------------------------------------------
(* class Transaction / class BlobTransaction / class Block.  tx_hash is a  *)
(* fresh random token: a transaction's identity is its position in the     *)
(* demand mapping, which keeps insertion order.                            *)
Transaction(max_priority_fee_per_gas, gas_used, max_fee_per_gas) ==
    [class |-> "Transaction",
     max_fee_per_gas |-> max_fee_per_gas,
     max_priority_fee_per_gas |-> max_priority_fee_per_gas,
     gas_used |-> gas_used]

BlobTransaction(max_priority_fee_per_gas, gas_used, max_fee_per_gas, max_fee_per_data_gas, blob_hashes) ==
    [class |-> "BlobTransaction",
     max_fee_per_gas |-> max_fee_per_gas,
     max_priority_fee_per_gas |-> max_priority_fee_per_gas,
     gas_used |-> gas_used,
     max_fee_per_data_gas |-> max_fee_per_data_gas,
     blob_hashes |-> blob_hashes]

(* isinstance(tx, BlobTransaction) *)
IsBlob(tx) == tx.class = "BlobTransaction"

Block(txs) == [txs |-> txs]

(* Variant: BlobTransaction without its override of is_valid. *)
is_valid_not_overridden(tx, p, price_data) == RLeq(p, Rat(tx.max_fee_per_gas, 1))

(* Transaction.is_valid and its override in BlobTransaction. *)
is_valid(tx, p, price_data) ==
    IF IsBlob(tx)
    THEN RLeq(p, Rat(tx.max_fee_per_gas, 1)) /\ tx.max_fee_per_data_gas >= price_data
    ELSE RLeq(p, Rat(tx.max_fee_per_gas, 1))

(* priority_fee = min(max_fee_per_gas - price, max_priority_fee_per_gas),  *)
(* as a numerator over the price's denominator p.d.                        *)
priority_fee(tx, p) ==
    LET a == tx.max_fee_per_gas * p.d - p.n
        b == tx.max_priority_fee_per_gas * p.d
    IN  IF a <= b THEN a ELSE b

(* Variant: a BlobTransaction's premium counts its data fee as well. *)
get_premium_with_data_fee(tx, p) ==
    [n |-> WideMul(tx.gas_used,
                   priority_fee(tx, p)
                     + (IF IsBlob(tx) THEN tx.max_fee_per_data_gas * tx.blob_hashes * p.d ELSE 0)),
     d |-> p.d]

(* Transaction.get_premium (inherited by BlobTransaction): the rational    *)
(* gas_used * priority_fee, numerator in two limbs, denominator p.d.       *)
get_premium(tx, p) == [n |-> WideMul(tx.gas_used, priority_fee(tx, p)), d |-> p.d]

(* Premiums taken at one price share the denominator. *)
PremiumLess(x, y) == WideLess(x.n, y.n)

PremiumLeq(x, y) == WideLeq(x.n, y.n)

---------------------------------------------------------------------------
RECURSIVE SumGas(_)
SumGas(txs) ==
    IF txs = <<>> THEN 0 ELSE Head(txs).gas_used + SumGas(Tail(txs))

RECURSIVE SumBlobs(_)
SumBlobs(txs) ==
    IF txs = <<>> THEN 0
    ELSE (IF IsBlob(Head(txs)) THEN Head(txs).blob_hashes ELSE 0) + SumBlobs(Tail(txs))

(* Variant: the change denominator left out of the update. *)
update_price_undamped(s, block) ==
    LET target == BLOCK_RESOURCE_TARGETS
        utilized == SumGas(block.txs)
    IN  RMul(s.price, RAdd(Rat(1, 1), Rat(utilized - target, target)))

RECURSIVE SumPlainGas(_)
SumPlainGas(txs) ==
    IF txs = <<>> THEN 0
    ELSE (IF IsBlob(Head(txs)) THEN 0 ELSE Head(txs).gas_used) + SumPlainGas(Tail(txs))

(* Variant: the gas of BlobTransactions not counted as utilized. *)
update_price_plain_gas_only(s, block) ==
    LET target == BLOCK_RESOURCE_TARGETS
        utilized == SumPlainGas(block.txs)
    IN  RMul(s.price,
             RAdd(Rat(1, 1),
                  Rat(utilized - target, target * BASEFEE_MAX_CHANGE_DENOMINATOR)))

Max(a, b) == IF a >= b THEN a ELSE b

(* Variant: utilized counts the data gas of the Block as well. *)
update_price_with_data_gas(s, block) ==
    LET target == BLOCK_RESOURCE_TARGETS
        utilized == SumGas(block.txs) + DATA_GAS_PER_BLOB * SumBlobs(block.txs)
    IN  RMul(s.price,
             RAdd(Rat(1, 1),
                  Rat(utilized - target, target * BASEFEE_MAX_CHANGE_DENOMINATOR)))

(* Variant: the gas is measured against the limit, not the target. *)
update_price_limit_as_target(s, block) ==
    LET target == BLOCK_RESOURCE_LIMITS
        utilized == SumGas(block.txs)
    IN  RMul(s.price,
             RAdd(Rat(1, 1),
                  Rat(utilized - target, target * BASEFEE_MAX_CHANGE_DENOMINATOR)))

(* 1559 fee mechanism *)
update_price(s, block) ==
    LET target == BLOCK_RESOURCE_TARGETS
        utilized == SumGas(block.txs)
    IN  RMul(s.price,
             RAdd(Rat(1, 1),
                  Rat(utilized - target, target * BASEFEE_MAX_CHANGE_DENOMINATOR)))

(* Variant: no floor at 0. *)
update_excess_data_gas_unclamped(s, block) ==
    LET target == TARGET_DATA_GAS_PER_BLOCK
        utilized == DATA_GAS_PER_BLOB * SumBlobs(block.txs)
    IN  s.excess_data_gas + (utilized - target)

(* Variant: blobs counted, not their data gas. *)
update_excess_data_gas_blob_count(s, block) ==
    LET target == TARGET_DATA_GAS_PER_BLOCK
        utilized == SumBlobs(block.txs)
    IN  Max(s.excess_data_gas + (utilized - target), 0)

(* Variant: the per-block maximum taken for the target. *)
update_excess_data_gas_max_as_target(s, block) ==
    LET target == MAX_DATA_GAS_PER_BLOCK
        utilized == DATA_GAS_PER_BLOB * SumBlobs(block.txs)
    IN  Max(s.excess_data_gas + (utilized - target), 0)

(* 4844 fee mechanism *)
update_excess_data_gas(s, block) ==
    LET target == TARGET_DATA_GAS_PER_BLOCK
        utilized == DATA_GAS_PER_BLOB * SumBlobs(block.txs)
    IN  Max(s.excess_data_gas + (utilized - target), 0)

---------------------------------------------------------------------------
(* [tx for tx_hash, tx in demand.items() if tx.is_valid(price, price_data)] *)
RECURSIVE valid_demand(_, _, _)
valid_demand(txs, p, price_data) ==
    IF txs = <<>> THEN <<>>
    ELSE (IF is_valid(Head(txs), p, price_data) THEN <<Head(txs)>> ELSE <<>>)
         \o valid_demand(Tail(txs), p, price_data)

(* Variant: key = tx.get_premium(price), the sign of the key lost. *)
RECURSIVE sorted_insert_ascending(_, _, _)
sorted_insert_ascending(done, tx, p) ==
    IF done = <<>> THEN <<tx>>
    ELSE IF PremiumLess(get_premium(tx, p), get_premium(Head(done), p))
         THEN <<tx>> \o done
         ELSE <<Head(done)>> \o sorted_insert_ascending(Tail(done), tx, p)

RECURSIVE sorted_ascending(_, _)
sorted_ascending(txs, p) ==
    IF txs = <<>> THEN <<>>
    ELSE sorted_insert_ascending(sorted_ascending(SubSeq(txs, 1, Len(txs) - 1), p),
                                 txs[Len(txs)], p)

(* Variant: tx goes in front of the elements of equal key. *)
RECURSIVE sorted_insert_ties_first(_, _, _)
sorted_insert_ties_first(done, tx, p) ==
    IF done = <<>> THEN <<tx>>
    ELSE IF PremiumLeq(get_premium(Head(done), p), get_premium(tx, p))
         THEN <<tx>> \o done
         ELSE <<Head(done)>> \o sorted_insert_ties_first(Tail(done), tx, p)

(* sorted(..., key = lambda tx: -tx.get_premium(price)): Python's sort is  *)
(* stable, so tx goes behind every element whose key is not greater.       *)
RECURSIVE sorted_insert(_, _, _)
sorted_insert(done, tx, p) ==
    IF done = <<>> THEN <<tx>>
    ELSE IF PremiumLess(get_premium(Head(done), p), get_premium(tx, p))
         THEN <<tx>> \o done
         ELSE <<Head(done)>> \o sorted_insert(Tail(done), tx, p)

RECURSIVE sorted(_, _)
sorted(txs, p) ==
    IF txs = <<>> THEN <<>>
    ELSE sorted_insert(sorted(SubSeq(txs, 1, Len(txs) - 1), p), txs[Len(txs)], p)

(* Variant: the scan without the test of utilized against gas_limit. *)
RECURSIVE build_block_loop_no_gas_test(_, _, _, _, _)
build_block_loop_no_gas_test(sorted_valid_demand, i, included_transactions, utilized, utilized_data) ==
    IF i > Len(sorted_valid_demand) THEN included_transactions
    ELSE LET tx == sorted_valid_demand[i]
         IN  IF IsBlob(tx) /\ utilized_data <= MAX_DATA_GAS_PER_BLOCK
             THEN build_block_loop_no_gas_test(sorted_valid_demand, i + 1,
                                               Append(included_transactions, tx),
                                               utilized + tx.gas_used,
                                               utilized_data + tx.blob_hashes * DATA_GAS_PER_BLOB)
             ELSE IF IsBlob(tx) /\ utilized_data > MAX_DATA_GAS_PER_BLOCK
             THEN build_block_loop_no_gas_test(sorted_valid_demand, i + 1,
                                               included_transactions, utilized, utilized_data)
             ELSE build_block_loop_no_gas_test(sorted_valid_demand, i + 1,
                                               Append(included_transactions, tx),
                                               utilized + tx.gas_used,
                                               utilized_data)

(* Variant: a BlobTransaction met over the data limit ends the scan. *)
RECURSIVE build_block_loop_data_break(_, _, _, _, _)
build_block_loop_data_break(sorted_valid_demand, i, included_transactions, utilized, utilized_data) ==
    IF i > Len(sorted_valid_demand) THEN included_transactions
    ELSE LET tx == sorted_valid_demand[i]
         IN  IF utilized <= BLOCK_RESOURCE_LIMITS
             THEN IF IsBlob(tx) /\ utilized_data <= MAX_DATA_GAS_PER_BLOCK
                  THEN build_block_loop_data_break(sorted_valid_demand, i + 1,
                                                   Append(included_transactions, tx),
                                                   utilized + tx.gas_used,
                                                   utilized_data + tx.blob_hashes * DATA_GAS_PER_BLOB)
                  ELSE IF IsBlob(tx) /\ utilized_data > MAX_DATA_GAS_PER_BLOCK
                  THEN included_transactions
                  ELSE build_block_loop_data_break(sorted_valid_demand, i + 1,
                                                   Append(included_transactions, tx),
                                                   utilized + tx.gas_used,
                                                   utilized_data)
             ELSE included_transactions

(* Variant: a BlobTransaction is taken only under the data limit         *)
(* (utilized_data < data_limit) and skipped at or over it.                 *)
RECURSIVE build_block_loop_data_strict(_, _, _, _, _)
build_block_loop_data_strict(sorted_valid_demand, i, included_transactions, utilized, utilized_data) ==
    IF i > Len(sorted_valid_demand) THEN included_transactions
    ELSE LET tx == sorted_valid_demand[i]
         IN  IF utilized <= BLOCK_RESOURCE_LIMITS
             THEN IF IsBlob(tx) /\ utilized_data < MAX_DATA_GAS_PER_BLOCK
                  THEN build_block_loop_data_strict(sorted_valid_demand, i + 1,
                                                    Append(included_transactions, tx),
                                                    utilized + tx.gas_used,
                                                    utilized_data + tx.blob_hashes * DATA_GAS_PER_BLOB)
                  ELSE IF IsBlob(tx) /\ utilized_data >= MAX_DATA_GAS_PER_BLOCK
                  THEN build_block_loop_data_strict(sorted_valid_demand, i + 1,
                                                    included_transactions, utilized, utilized_data)
                  ELSE build_block_loop_data_strict(sorted_valid_demand, i + 1,
                                                    Append(included_transactions, tx),
                                                    utilized + tx.gas_used,
                                                    utilized_data)
             ELSE included_transactions

(* The for loop of build_block from position i on, with its locals. *)
RECURSIVE build_block_loop(_, _, _, _, _)
build_block_loop(sorted_valid_demand, i, included_transactions, utilized, utilized_data) ==
    IF i > Len(sorted_valid_demand) THEN included_transactions
    ELSE LET tx == sorted_valid_demand[i]
         IN  IF utilized <= BLOCK_RESOURCE_LIMITS
             THEN IF IsBlob(tx) /\ utilized_data <= MAX_DATA_GAS_PER_BLOCK
                  THEN build_block_loop(sorted_valid_demand, i + 1,
                                        Append(included_transactions, tx),
                                        utilized + tx.gas_used,
                                        utilized_data + tx.blob_hashes * DATA_GAS_PER_BLOB)
                  ELSE IF IsBlob(tx) /\ utilized_data > MAX_DATA_GAS_PER_BLOCK
                  THEN build_block_loop(sorted_valid_demand, i + 1,
                                        included_transactions, utilized, utilized_data)
                  ELSE build_block_loop(sorted_valid_demand, i + 1,
                                        Append(included_transactions, tx),
                                        utilized + tx.gas_used,
                                        utilized_data)
             ELSE included_transactions

build_block(s) ==
    LET price_data == calc_price_data(s.excess_data_gas)
        sorted_valid_demand == sorted(valid_demand(s.demand, s.price, price_data), s.price)
    IN  [block |-> Block(build_block_loop(sorted_valid_demand, 1, <<>>, 0, 0))]

record_latest_block(s, block) == block

(* Case 1 of the backtest: build_block_from_data.  "REMOVE selection,      *)
(* include everything for now": the list scanned is the demand mapping as  *)
(* it stands, neither filtered by is_valid nor sorted; price_data is       *)
(* computed and not used.  The scan is build_block's.                      *)
build_block_from_data(s) ==
    LET price_data == calc_price_data(s.excess_data_gas)
        sorted_valid_demand == s.demand
    IN  [block |-> Block(build_block_loop(sorted_valid_demand, 1, <<>>, 0, 0))]

---------------------------------------------------------------------------
(* The demand a step may be given: any mapping of at most MaxTxs of these  *)
(* transactions (a transaction may occur twice, under two hashes).         *)
TxPool ==
    { Transaction(1, 15000000, 1),
      Transaction(1, 15000000, 2),
      Transaction(2, 30000000, 2),
      BlobTransaction(1, 15000000, 2, 1, 1),
      BlobTransaction(1, 15000000, 2, 2, 4),
      BlobTransaction(2, 15000000, 3, 0, 2),
      BlobTransaction(2, 15000000, 2, 3, 8) }

Demands(n) == UNION { [1..k -> TxPool] : k \in 0..n }

(* self.tx_hash = secrets.token_bytes(6).hex(): a token no other           *)
(* transaction of the run has, here the timestep the transaction is made   *)
(* in and its position in that timestep's mapping.                         *)
WithHash(tx, tx_hash) ==
    [f \in DOMAIN tx \cup {"tx_hash"} |-> IF f = "tx_hash" THEN tx_hash ELSE tx[f]]

(* demand[tx.tx_hash] = tx, for the transactions made in timestep t *)
Stamp(txs, t) == [i \in DOMAIN txs |-> WithHash(txs[i], <<t, i>>)]

(* The tx_hash of every transaction of a demand mapping that is not in the *)
(* Block.                                                                  *)
Pending(d, block) ==
    { d[i].tx_hash : i \in { j \in DOMAIN d :
                               \A k \in DOMAIN block.txs : block.txs[k].tx_hash # d[j].tx_hash } }

(* The state a policy or state update function is handed as `s`. *)
State == [price |-> price, excess_data_gas |-> excess_data_gas,
          demand |-> demand, latest_block |-> latest_block]

(* initial_conditions; radCAD starts at timestep 0, substep 0.  h is the   *)
(* last entry of the state history, the state the timestep before ended    *)
(* in: the Market State the latest timestep began with, and (pending) the  *)
(* tx_hash of the transactions of that entry's demand that are not in its  *)
(* latest_block.                                                           *)
Init ==
    /\ price = Rat(1, 1)
    /\ excess_data_gas = 0
    /\ demand = <<>>
    /\ latest_block = Block(<<>>)
    /\ timestep = 0
    /\ substep = 0
    /\ h = [price |-> Rat(1, 1), excess_data_gas |-> 0, pending |-> {}]
    /\ fe = [pc |-> "idle"]

(* Variant: the transactions the last Block left out stay in the mapping. *)
GenerateDemand_keeps_pending ==
    /\ substep \in {0, 2}
    /\ timestep < MaxSteps
    /\ \E d \in Demands(MaxTxs) :
          demand' = Stamp(d, timestep + 1)
                      \o SelectSeq(demand, LAMBDA tx : tx.tx_hash \in Pending(demand, latest_block))
    /\ timestep' = timestep + 1
    /\ substep' = 1
    /\ h' = [price |-> price, excess_data_gas |-> excess_data_gas,
             pending |-> Pending(demand, latest_block)]
    /\ UNCHANGED <<price, excess_data_gas, latest_block, fe>>

(* psub[0]: "demand": generate_demand makes a new mapping of new           *)
(* transactions.  h gets the state the timestep before ended in.           *)
GenerateDemand ==
    /\ substep \in {0, 2}
    /\ timestep < MaxSteps
    /\ \E d \in Demands(MaxTxs) : demand' = Stamp(d, timestep + 1)
    /\ timestep' = timestep + 1
    /\ substep' = 1
    /\ h' = [price |-> price, excess_data_gas |-> excess_data_gas,
             pending |-> Pending(demand, latest_block)]
    /\ UNCHANGED <<price, excess_data_gas, latest_block, fe>>

(* Variant: update_price is handed the Block recorded by the step before,  *)
(* not the one build_block has just made.                                  *)
BuildAndUpdate_stale_block ==
    /\ substep = 1
    /\ LET _input == build_block(State)
       IN  /\ price' = update_price(State, latest_block)
           /\ excess_data_gas' = update_excess_data_gas(State, _input.block)
           /\ latest_block' = record_latest_block(State, _input.block)
    /\ substep' = 2
    /\ UNCHANGED <<demand, timestep, h, fe>>

(* psub[1]: policy build_block, then the three state update functions,     *)
(* each on the state the substep began with.                               *)
BuildAndUpdate ==
    /\ substep = 1
    /\ LET _input == build_block(State)
       IN  /\ excess_data_gas' = update_excess_data_gas(State, _input.block)
           /\ price' = update_price(State, _input.block)
           /\ latest_block' = record_latest_block(State, _input.block)
    /\ substep' = 2
    /\ UNCHANGED <<demand, timestep, h, fe>>

Next == GenerateDemand \/ BuildAndUpdate

Spec == Init /\ [][Next]_vars

---------------------------------------------------------------------------
(* One substep 2 taken alone, on every demand of at most MaxDemand         *)
(* transactions and a grid of Market States that chained steps reach from  *)
(* initial_conditions: the price after an empty, an on-target and a full   *)
(* block, and the excess after blocks of 4, 8 and twice 8 blobs.           *)
PriceInputs == { Rat(7, 8), Rat(1, 1), Rat(9, 8) }

ExcessInputs == { 0, 2 * DATA_GAS_PER_BLOB, 6 * DATA_GAS_PER_BLOB, 12 * DATA_GAS_PER_BLOB }

InitStep ==
    /\ price \in PriceInputs
    /\ excess_data_gas \in ExcessInputs
    /\ \E d \in Demands(MaxDemand) : demand = Stamp(d, 1)
    /\ latest_block = Block(<<>>)
    /\ timestep = 1
    /\ substep = 1
    /\ h = [price |-> price, excess_data_gas |-> excess_data_gas, pending |-> {}]
    /\ fe = [pc |-> "idle"]

SpecStep == InitStep /\ [][BuildAndUpdate]_vars

(* psub[1] of Case 1: the policy is build_block_from_data, the state       *)
(* update functions are the same three.                                    *)
BuildAndUpdateFromData ==
    /\ substep = 1
    /\ LET _input == build_block_from_data(State)
       IN  /\ excess_data_gas' = update_excess_data_gas(State, _input.block)
           /\ price' = update_price(State, _input.block)
           /\ latest_block' = record_latest_block(State, _input.block)
    /\ substep' = 2
    /\ UNCHANGED <<demand, timestep, h, fe>>

(* One substep 2 of Case 1, on the Market States and demands of SpecStep. *)
SpecFromData == InitStep /\ [][BuildAndUpdateFromData]_vars

---------------------------------------------------------------------------
(* One step on a demand mapping whose source also returns malformed        *)
(* records.  The constructors store whatever they are given                *)
(* (Transaction.__init__, BlobTransaction.__init__ assign the fields       *)
(* unchecked), so each of these is an object build_block can meet:         *)
(* a negative gas_used, a negative max_priority_fee_per_gas, a negative    *)
(* max_fee_per_gas, a negative max_fee_per_data_gas, a negative            *)
(* blob_hashes; and two well-formed transactions beside them.              *)
MalformedPool ==
    { Transaction(1, -15000000, 2),
      Transaction(-1, 15000000, 2),
      Transaction(1, 15000000, -1),
      BlobTransaction(1, 15000000, 2, -1, 1),
      BlobTransaction(1, 15000000, 2, 2, -1),
      Transaction(1, 15000000, 2),
      BlobTransaction(1, 15000000, 2, 2, 1) }

InitMalformed ==
    /\ price \in PriceInputs
    /\ excess_data_gas \in ExcessInputs
    /\ \E d \in UNION { [1..k -> MalformedPool] : k \in 0..MaxMalformedDemand } :
          demand = Stamp(d, 1)
    /\ latest_block = Block(<<>>)
    /\ timestep = 1
    /\ substep = 1
    /\ h = [price |-> price, excess_data_gas |-> excess_data_gas, pending |-> {}]
    /\ fe = [pc |-> "idle"]

SpecMalformed == InitMalformed /\ [][BuildAndUpdate]_vars

---------------------------------------------------------------------------
(* fake_exponential run one iteration at a time.  fe holds the arguments   *)
(* and locals of the call in progress, the value the call returned, and    *)
(* the value the call before it returned; calls follow one another on a    *)
(* numerator that grows by `stride`, as calc_price_data is called on a     *)
(* growing excess_data_gas.                                                *)
(* Variant: numerator_accum starts at factor, not factor * denominator. *)
ExpCall_accum_not_scaled(factor, numerator, denominator, stride, calls, previous) ==
    [pc |-> "loop",
     factor |-> factor, numerator |-> numerator, denominator |-> denominator,
     i |-> 1, output |-> 0, numerator_accum |-> factor,
     result |-> -1, previous |-> previous, stride |-> stride, calls |-> calls]

ExpCall(factor, numerator, denominator, stride, calls, previous) ==
    [pc |-> "loop",
     factor |-> factor, numerator |-> numerator, denominator |-> denominator,
     i |-> 1, output |-> 0, numerator_accum |-> factor * denominator,
     result |-> -1, previous |-> previous, stride |-> stride, calls |-> calls]

(* The first call, on numerator 0: small factors and denominators with     *)
(* numerators 0, 1, 2, ..., and calc_price_data's own arguments with the   *)
(* excess growing a blob at a time.                                        *)
InitExp ==
    /\ price = Rat(1, 1)
    /\ excess_data_gas = 0
    /\ demand = <<>>
    /\ latest_block = Block(<<>>)
    /\ timestep = 0
    /\ substep = 0
    /\ h = [price |-> Rat(1, 1), excess_data_gas |-> 0, pending |-> {}]
    /\ \/ \E factor \in 1..MaxFactor, denominator \in 1..MaxDenominator :
              fe = ExpCall(factor, 0, denominator, 1, 0, -1)
       \/ fe = ExpCall(MIN_DATA_GASPRICE, 0, DATA_GASPRICE_UPDATE_FRACTION,
                       DATA_GAS_PER_BLOB, 0, -1)

(* Variant: output = numerator_accum written for output += numerator_accum. *)
ExpLoop_output_assigned ==
    /\ fe.pc = "loop"
    /\ fe.numerator_accum > 0
    /\ fe.i <= MaxIterations
    /\ fe' = [fe EXCEPT !.output = fe.numerator_accum,
                        !.numerator_accum = MulDiv(fe.numerator_accum, fe.numerator,
                                                   fe.denominator * fe.i),
                        !.i = fe.i + 1]
    /\ UNCHANGED <<price, excess_data_gas, demand, latest_block, timestep, substep, h>>

(* while numerator_accum > 0: the body *)
ExpLoop ==
    /\ fe.pc = "loop"
    /\ fe.numerator_accum > 0
    /\ fe.i <= MaxIterations
    /\ fe' = [fe EXCEPT !.output = fe.output + fe.numerator_accum,
                        !.numerator_accum = MulDiv(fe.numerator_accum, fe.numerator,
                                                   fe.denominator * fe.i),
                        !.i = fe.i + 1]
    /\ UNCHANGED <<price, excess_data_gas, demand, latest_block, timestep, substep, h>>

(* the loop left: return output // denominator *)
ExpReturn ==
    /\ fe.pc = "loop"
    /\ ~(fe.numerator_accum > 0)
    /\ fe' = [fe EXCEPT !.pc = "done", !.result = fe.output \div fe.denominator]
    /\ UNCHANGED <<price, excess_data_gas, demand, latest_block, timestep, substep, h>>

(* the next call, on a larger numerator *)
ExpCallAgain ==
    /\ fe.pc = "done"
    /\ fe.calls < MaxCalls
    /\ fe' = ExpCall(fe.factor, fe.numerator + fe.stride, fe.denominator,
                     fe.stride, fe.calls + 1, fe.result)
    /\ UNCHANGED <<price, excess_data_gas, demand, latest_block, timestep, substep, h>>

NextExp == ExpLoop \/ ExpReturn \/ ExpCallAgain

SpecExp == InitExp /\ [][NextExp]_vars

(* The interpreter runs the loop on: an enabled step is taken. *)
SpecExpFair == InitExp /\ [][NextExp]_vars /\ WF_vars(NextExp)

---------------------------------------------------------------------------
(* Properties.  In a state with substep = 2 the step has acted: h is the   *)
(* Market State it read, demand the mapping it was given, latest_block the *)
(* Block it built, price and excess_data_gas the values it committed.      *)
StepDone == substep = 2

StepBlock == latest_block.txs

StepPriceData == calc_price_data(h.excess_data_gas)

Included(tx) == \E i \in DOMAIN StepBlock : StepBlock[i] = tx

(* gas_used summed over every transaction of the Block, by position *)
RECURSIVE GasUpTo(_, _)
GasUpTo(txs, k) == IF k = 0 THEN 0 ELSE GasUpTo(txs, k - 1) + txs[k].gas_used

BlockGas == GasUpTo(StepBlock, Len(StepBlock))

(* data gas summed over the BlobTransactions of the Block, by position *)
RECURSIVE DataGasUpTo(_, _)
DataGasUpTo(txs, k) ==
    IF k = 0 THEN 0
    ELSE DataGasUpTo(txs, k - 1)
         + (IF txs[k].class = "BlobTransaction" THEN txs[k].blob_hashes * DATA_GAS_PER_BLOB ELSE 0)

BlockDataGas == DataGasUpTo(StepBlock, Len(StepBlock))

LargestGas ==
    IF demand = <<>> THEN 0
    ELSE CHOOSE g \in { demand[i].gas_used : i \in DOMAIN demand } :
             \A i \in DOMAIN demand : demand[i].gas_used <= g

(* C1: excess_data_gas is never negative, in any state of any run from     *)
(* the initial conditions.                                                 *)
C1_ExcessNeverNegative == excess_data_gas >= 0

(* an empty block met an excess below the target and drained it to 0 *)
C1_Witness ==
    /\ StepDone
    /\ StepBlock = <<>>
    /\ h.excess_data_gas > 0
    /\ h.excess_data_gas < TARGET_DATA_GAS_PER_BLOCK
    /\ excess_data_gas = 0

(* C2: the price is positive in every state of any run from the positive   *)
(* initial price.                                                          *)
C2_PricePositive == price.n > 0 /\ price.d > 0

(* an empty block has cut the price by the largest factor *)
C2_Witness ==
    /\ StepDone
    /\ StepBlock = <<>>
    /\ timestep >= 2
    /\ RLess(price, h.price)
    /\ RLess(h.price, Rat(1, 1))

(* C3: every transaction of the step's Block passes the validity test at   *)
(* the step's price and data price, and a BlobTransaction of the demand    *)
(* whose max_fee_per_data_gas is below the data price is not in the Block. *)
C3_OnlyValidIncluded ==
    StepDone =>
        /\ \A i \in DOMAIN StepBlock :
              /\ StepBlock[i].max_fee_per_gas * h.price.d >= h.price.n
              /\ StepBlock[i].class = "BlobTransaction"
                    => StepBlock[i].max_fee_per_data_gas >= StepPriceData
        /\ \A i \in DOMAIN demand :
              (demand[i].class = "BlobTransaction"
               /\ demand[i].max_fee_per_data_gas < StepPriceData)
                    => ~Included(demand[i])

(* a BlobTransaction that fails the data-price test only, with a premium   *)
(* above that of every other pending transaction, was left out of a Block  *)
(* that holds the others                                                   *)
C3_Witness ==
    /\ StepDone
    /\ Len(demand) >= 2
    /\ Len(StepBlock) = Len(demand) - 1
    /\ \E i \in DOMAIN demand :
          /\ demand[i].class = "BlobTransaction"
          /\ demand[i].max_fee_per_gas * h.price.d >= h.price.n
          /\ demand[i].max_fee_per_data_gas < StepPriceData
          /\ ~Included(demand[i])
          /\ \A j \in DOMAIN demand \ {i} :
                PremiumLess(get_premium(demand[j], h.price), get_premium(demand[i], h.price))

(* C4: the gas of the Block is at most the gas limit plus the largest      *)
(* gas_used of the step's demand.                                          *)
C4_OneTransactionOvershoot ==
    StepDone => BlockGas <= BLOCK_RESOURCE_LIMITS + LargestGas

(* the Block went over the limit by a whole transaction and the scan       *)
(* stopped before a valid pending transaction                              *)
C4_Witness ==
    /\ StepDone
    /\ BlockGas = BLOCK_RESOURCE_LIMITS + LargestGas
    /\ Len(StepBlock) < Len(demand)
    /\ \A i \in DOMAIN demand : is_valid(demand[i], h.price, StepPriceData)

(* C5: the Block stays within both limits: its gas is at most              *)
(* BLOCK_RESOURCE_LIMITS and its data gas at most MAX_DATA_GAS_PER_BLOCK.  *)
C5_WithinLimits ==
    StepDone =>
        /\ BlockGas <= BLOCK_RESOURCE_LIMITS
        /\ BlockDataGas <= MAX_DATA_GAS_PER_BLOCK

(* C6: a step moves the price by at most 1/BASEFEE_MAX_CHANGE_DENOMINATOR  *)
(* of its value, up or down.                                               *)
C6_BoundedPriceChange ==
    StepDone =>
        /\ RLeq(RMul(h.price, Rat(BASEFEE_MAX_CHANGE_DENOMINATOR - 1,
                                  BASEFEE_MAX_CHANGE_DENOMINATOR)), price)
        /\ RLeq(price, RMul(h.price, Rat(BASEFEE_MAX_CHANGE_DENOMINATOR + 1,
                                         BASEFEE_MAX_CHANGE_DENOMINATOR)))

(* C7: the committed price is price + price * (utilized - target) /        *)
(* (target * denominator), utilized being the gas of every transaction of  *)
(* the Block, blob or not; a Block of exactly 30e6 gas gives 9/8 of the    *)
(* price.                                                                  *)
C7_PriceUpdateRule ==
    StepDone =>
        /\ price = RAdd(h.price,
                        RMul(h.price,
                             Rat(BlockGas - BLOCK_RESOURCE_TARGETS,
                                 BLOCK_RESOURCE_TARGETS * BASEFEE_MAX_CHANGE_DENOMINATOR)))
        /\ BlockGas = 30000000 => 8 * price.n * h.price.d = 9 * h.price.n * price.d

(* a Block of a blob and a plain transaction, 30e6 gas together *)
C7_Witness ==
    /\ StepDone
    /\ BlockGas = 30000000
    /\ \E i, j \in DOMAIN StepBlock :
          StepBlock[i].class = "BlobTransaction" /\ StepBlock[j].class = "Transaction"
    /\ 8 * price.n * h.price.d = 9 * h.price.n * price.d

(* C8: the committed excess is max(0, excess + utilized_data - target),    *)
(* utilized_data being DATA_GAS_PER_BLOB times the blob_hashes of the      *)
(* BlobTransactions of the Block alone; from an excess of 2^18 a Block     *)
(* without blobs gives 0.                                                  *)
C8_ExcessUpdateRule ==
    StepDone =>
        /\ excess_data_gas =
              (IF h.excess_data_gas + BlockDataGas >= TARGET_DATA_GAS_PER_BLOCK
               THEN h.excess_data_gas + BlockDataGas - TARGET_DATA_GAS_PER_BLOCK
               ELSE 0)
        /\ (h.excess_data_gas = 262144 /\ BlockDataGas = 0) => excess_data_gas = 0

(* a Block of plain and blob transactions has raised the excess *)
C8_Witness ==
    /\ StepDone
    /\ \E i, j \in DOMAIN StepBlock :
          StepBlock[i].class = "BlobTransaction" /\ StepBlock[j].class = "Transaction"
    /\ h.excess_data_gas > 0
    /\ excess_data_gas > h.excess_data_gas

(* C9: a step with an empty demand builds an empty Block, commits exactly  *)
(* 7/8 of the price (a strict decrease) and max(0, excess - target).       *)
C9_EmptyDemandStep ==
    (StepDone /\ demand = <<>>) =>
        /\ StepBlock = <<>>
        /\ BASEFEE_MAX_CHANGE_DENOMINATOR * price.n * h.price.d
              = (BASEFEE_MAX_CHANGE_DENOMINATOR - 1) * h.price.n * price.d
        /\ RLess(price, h.price)
        /\ excess_data_gas =
              (IF h.excess_data_gas >= TARGET_DATA_GAS_PER_BLOCK
               THEN h.excess_data_gas - TARGET_DATA_GAS_PER_BLOCK
               ELSE 0)

(* an empty demand met a Market State with a moved price and an excess     *)
(* above the target                                                        *)
C9_Witness ==
    /\ StepDone
    /\ demand = <<>>
    /\ h.price # Rat(1, 1)
    /\ h.excess_data_gas > TARGET_DATA_GAS_PER_BLOCK
    /\ excess_data_gas = h.excess_data_gas - TARGET_DATA_GAS_PER_BLOCK

(* C10: the Block lists its transactions by non-increasing premium at the  *)
(* step's price, whatever their order in the demand mapping.               *)
C10_BlockByDescendingPremium ==
    StepDone =>
        \A i \in DOMAIN StepBlock : \A j \in DOMAIN StepBlock :
            i < j => PremiumLeq(get_premium(StepBlock[j], h.price),
                                get_premium(StepBlock[i], h.price))

(* two plain transactions of equal gas_used, the one with the lower        *)
(* max_fee_per_gas first in the demand mapping and last in the Block       *)
C10_Witness ==
    /\ StepDone
    /\ Len(demand) = 2
    /\ demand[1].class = "Transaction" /\ demand[2].class = "Transaction"
    /\ demand[1].gas_used = demand[2].gas_used
    /\ demand[1].max_fee_per_gas < demand[2].max_fee_per_gas
    /\ StepBlock = <<demand[2], demand[1]>>
    /\ PremiumLess(get_premium(demand[1], h.price), get_premium(demand[2], h.price))


(* C13: steps follow one another and each is consistent.  A step begins   *)
(* (substep 1 entered) with the price and excess_data_gas the step before  *)
(* it committed, unchanged; it ends (substep 2 entered) with latest_block  *)
(* the Block build_block makes of that state and the step's demand, and    *)
(* with price and excess_data_gas the updates of that same pre-step state  *)
(* by that same Block.                                                     *)
C13_StepsSequentialConsistent ==
    [][/\ (substep' = 1) =>
            /\ price' = price
            /\ excess_data_gas' = excess_data_gas
            /\ h'.price = price
            /\ h'.excess_data_gas = excess_data_gas
            /\ timestep' = timestep + 1
       /\ (substep' = 2) =>
            LET block == build_block(State).block
            IN  /\ substep = 1
                /\ price = h.price
                /\ excess_data_gas = h.excess_data_gas
                /\ latest_block' = block
                /\ price' = update_price(State, block)
                /\ excess_data_gas' = update_excess_data_gas(State, block)
                /\ demand' = demand
                /\ timestep' = timestep]_vars

(* a later step, begun at a price an earlier step committed, has built a   *)
(* Block and moved the price again                                         *)
C13_Witness ==
    /\ StepDone
    /\ timestep >= 2
    /\ h.price # Rat(1, 1)
    /\ StepBlock # <<>>
    /\ price # h.price
    /\ price = update_price([price |-> h.price], latest_block)

(* a negative gas_used, a negative fee field, or a negative blob count *)
Malformed(tx) ==
    \/ tx.gas_used < 0
    \/ tx.max_priority_fee_per_gas < 0
    \/ tx.max_fee_per_gas < 0
    \/ IsBlob(tx) /\ (tx.max_fee_per_data_gas < 0 \/ tx.blob_hashes < 0)

(* C15: a malformed demand transaction is rejected at validation: the      *)
(* step completes and its Block holds no malformed transaction.            *)
C15_MalformedRejected ==
    StepDone => \A k \in 1..Len(StepBlock) : ~Malformed(StepBlock[k])

(* The premium-sorted valid demand of the step. *)
StepSorted == sorted(valid_demand(demand, h.price, StepPriceData), h.price)

PlainOnly(txs) == SelectSeq(txs, LAMBDA tx : ~IsBlob(tx))

BlobsOnly(txs) == SelectSeq(txs, IsBlob)

IsPrefix(a, b) == Len(a) <= Len(b) /\ a = SubSeq(b, 1, Len(a))

(* C17: the two limits act differently on the scan.  Every transaction of  *)
(* the Block was taken while the gas before it had not exceeded gas_limit, *)
(* and every BlobTransaction while the data gas before it had not exceeded *)
(* data_limit; the plain Transactions of the Block are the plain           *)
(* Transactions of the sorted valid demand up to where the scan stopped,   *)
(* and all of them when the gas never exceeded gas_limit, whatever the     *)
(* data gas.                                                               *)
C17_CapsAsymmetric ==
    StepDone =>
        /\ \A k \in 1..Len(StepBlock) :
              /\ GasUpTo(StepBlock, k - 1) <= BLOCK_RESOURCE_LIMITS
              /\ IsBlob(StepBlock[k]) =>
                    DataGasUpTo(StepBlock, k - 1) <= MAX_DATA_GAS_PER_BLOCK
        /\ LET plain == PlainOnly(StepSorted)
           IN  /\ IsPrefix(PlainOnly(StepBlock), plain)
               /\ BlockGas <= BLOCK_RESOURCE_LIMITS => PlainOnly(StepBlock) = plain

(* the data gas went over data_limit, a valid BlobTransaction behind was   *)
(* skipped, and a plain Transaction behind that one was still included     *)
C17_Witness ==
    /\ StepDone
    /\ Len(StepSorted) = 3
    /\ IsBlob(StepSorted[1]) /\ IsBlob(StepSorted[2]) /\ ~IsBlob(StepSorted[3])
    /\ StepBlock = <<StepSorted[1], StepSorted[3]>>
    /\ BlockDataGas > MAX_DATA_GAS_PER_BLOCK

(* the largest blob_hashes * DATA_GAS_PER_BLOB of the step's demand *)
LargestDataGas ==
    LET sizes == { demand[i].blob_hashes * DATA_GAS_PER_BLOB :
                     i \in { j \in DOMAIN demand : IsBlob(demand[j]) } }
    IN  IF sizes = {} THEN 0
        ELSE CHOOSE g \in sizes : \A x \in sizes : x <= g

(* C18: the data gas of the Block is at most data_limit plus the data gas  *)
(* of the largest BlobTransaction of the demand.  A BlobTransaction is     *)
(* taken exactly when the data gas before it is <= data_limit: each one in *)
(* the Block was, the BlobTransactions of the Block are the first ones of  *)
(* the sorted valid demand, and while the gas limit has not stopped the    *)
(* scan none is left out unless the data gas has gone over data_limit.     *)
C18_DataOvershootOneBlob ==
    StepDone =>
        /\ BlockDataGas <= MAX_DATA_GAS_PER_BLOCK + LargestDataGas
        /\ \A k \in 1..Len(StepBlock) :
              IsBlob(StepBlock[k]) =>
                  DataGasUpTo(StepBlock, k - 1) <= MAX_DATA_GAS_PER_BLOCK
        /\ LET blobs == BlobsOnly(StepSorted)
           IN  /\ IsPrefix(BlobsOnly(StepBlock), blobs)
               /\ BlockGas <= BLOCK_RESOURCE_LIMITS =>
                     \/ BlobsOnly(StepBlock) = blobs
                     \/ BlockDataGas > MAX_DATA_GAS_PER_BLOCK

(* a BlobTransaction was taken with the data gas before it equal to        *)
(* data_limit, and the next one was left out                               *)
C18_Witness ==
    /\ StepDone
    /\ \E k \in 1..Len(StepBlock) :
          /\ IsBlob(StepBlock[k])
          /\ DataGasUpTo(StepBlock, k - 1) = MAX_DATA_GAS_PER_BLOCK
    /\ Len(BlobsOnly(StepBlock)) < Len(BlobsOnly(StepSorted))
    /\ BlockDataGas <= MAX_DATA_GAS_PER_BLOCK + LargestDataGas

(* C19: the Block of a step holds transactions of that step's demand      *)
(* mapping only, each at most once, and none that was pending and left out *)
(* in the step before; as every transaction of a demand mapping is made in *)
(* its own timestep, none left out in any earlier step either.             *)
C19_NoCarryOver ==
    StepDone =>
        /\ \A k \in 1..Len(StepBlock) :
              /\ \E i \in DOMAIN demand : demand[i] = StepBlock[k]
              /\ StepBlock[k].tx_hash[1] = timestep
              /\ StepBlock[k].tx_hash \notin h.pending
        /\ \A k, l \in 1..Len(StepBlock) :
              StepBlock[k].tx_hash = StepBlock[l].tx_hash => k = l

(* the step before left a transaction out, and this step has built a Block *)
(* of its own demand                                                       *)
C19_Witness ==
    /\ StepDone
    /\ timestep >= 2
    /\ h.pending # {}
    /\ StepBlock # <<>>
    /\ StepBlock = demand

SameExecutionFields(a, b) ==
    /\ a.gas_used = b.gas_used
    /\ a.max_fee_per_gas = b.max_fee_per_gas
    /\ a.max_priority_fee_per_gas = b.max_priority_fee_per_gas

(* C20: the premium of a Transaction or BlobTransaction at the price p is  *)
(* gas_used * min(max_fee_per_gas - p, max_priority_fee_per_gas); a valid  *)
(* transaction's tip per gas lies between 0 and max_priority_fee_per_gas;  *)
(* max_fee_per_data_gas and blob_hashes have no part in the ordering: two  *)
(* transactions equal in the three execution fields have equal premiums    *)
(* and stand in the sorted valid demand in the order of the mapping.       *)
C20_PremiumFormula ==
    StepDone =>
        /\ \A i \in DOMAIN demand :
              LET tx == demand[i]
                  a == tx.max_fee_per_gas * h.price.d - h.price.n
                  b == tx.max_priority_fee_per_gas * h.price.d
                  tip == IF a <= b THEN a ELSE b
                  premium == get_premium(tx, h.price)
              IN  /\ premium.n[1] * Limb + premium.n[2] = tx.gas_used * tip
                  /\ premium.d = h.price.d
                  /\ is_valid(tx, h.price, StepPriceData) => (0 <= tip /\ tip <= b)
        /\ \A i, j \in DOMAIN demand :
              SameExecutionFields(demand[i], demand[j]) =>
                  get_premium(demand[i], h.price) = get_premium(demand[j], h.price)
        /\ LET txs == StepSorted
           IN  \A k, l \in DOMAIN txs :
                  (k < l /\ SameExecutionFields(txs[k], txs[l])) =>
                      txs[k].tx_hash[2] < txs[l].tx_hash[2]

(* two valid BlobTransactions equal in the execution fields, the second    *)
(* with the higher data fee and more blobs, and a plain Transaction equal  *)
(* to them, built into the Block in the order of the mapping               *)
C20_Witness ==
    /\ StepDone
    /\ Len(demand) = 3
    /\ IsBlob(demand[1]) /\ IsBlob(demand[2]) /\ ~IsBlob(demand[3])
    /\ SameExecutionFields(demand[1], demand[2])
    /\ SameExecutionFields(demand[2], demand[3])
    /\ demand[1].max_fee_per_data_gas < demand[2].max_fee_per_data_gas
    /\ demand[1].blob_hashes < demand[2].blob_hashes
    /\ get_premium(demand[1], h.price).n[1] > 0
    /\ StepBlock = demand

(* C21: ties of premium are broken by insertion order.  In the sorted     *)
(* valid demand, and so in the Block, transactions of equal premium stand  *)
(* in the order of the demand mapping; the Block is the one value          *)
(* build_block gives for the Market State and the demand mapping, whatever *)
(* else the state holds.                                                   *)
C21_TiesByInsertionOrder ==
    StepDone =>
        /\ LET txs == StepSorted
           IN  \A k, l \in DOMAIN txs :
                  (k < l /\ get_premium(txs[k], h.price) = get_premium(txs[l], h.price)) =>
                      txs[k].tx_hash[2] < txs[l].tx_hash[2]
        /\ \A k, l \in DOMAIN StepBlock :
              (k < l /\ get_premium(StepBlock[k], h.price) = get_premium(StepBlock[l], h.price)) =>
                  StepBlock[k].tx_hash[2] < StepBlock[l].tx_hash[2]
        /\ latest_block = build_block([price |-> h.price, excess_data_gas |-> h.excess_data_gas,
                                       demand |-> demand]).block

(* a lower premium first in the mapping, then two transactions of equal    *)
(* premium that differ in their fields: the Block has the two in front,    *)
(* in the order of the mapping                                             *)
C21_Witness ==
    /\ StepDone
    /\ Len(demand) = 3
    /\ PremiumLess(get_premium(demand[1], h.price), get_premium(demand[2], h.price))
    /\ get_premium(demand[2], h.price) = get_premium(demand[3], h.price)
    /\ ~SameExecutionFields(demand[2], demand[3])
    /\ StepBlock = <<demand[2], demand[3], demand[1]>>

(* C22: the Block build_block_from_data returns holds no transaction that *)
(* fails is_valid at the price and data price of the step.                 *)
C22_FromDataOnlyValid ==
    StepDone =>
        ~ \E k \in DOMAIN StepBlock : ~is_valid(StepBlock[k], h.price, StepPriceData)

(* C23: the two fee markets are updated apart.  The committed price is    *)
(* what update_price gives for the old price and any Block of the same     *)
(* total gas_used, at any excess_data_gas; the committed excess is what    *)
(* update_excess_data_gas gives for the old excess and any Block of the    *)
(* same blob count, at any price; build_block returns a Block and nothing  *)
(* else, so the price and excess the updates start from are the step's.    *)
C23_MarketsIndependent ==
    StepDone =>
        LET gas_only == Block(<<Transaction(0, BlockGas, 0)>>)
            blobs_only == Block(<<BlobTransaction(0, 0, 0, 0, SumBlobs(StepBlock))>>)
        IN  /\ \A e \in ExcessInputs :
                  update_price([price |-> h.price, excess_data_gas |-> e,
                                demand |-> <<>>, latest_block |-> Block(<<>>)], gas_only) = price
            /\ \A p \in PriceInputs :
                  update_excess_data_gas([price |-> p, excess_data_gas |-> h.excess_data_gas,
                                          demand |-> <<>>, latest_block |-> Block(<<>>)], blobs_only)
                      = excess_data_gas
            /\ DOMAIN build_block([price |-> h.price, excess_data_gas |-> h.excess_data_gas,
                                   demand |-> demand]) = {"block"}

(* a Block of plain and blob transactions has moved both the price and the *)
(* excess                                                                  *)
C23_Witness ==
    /\ StepDone
    /\ \E k, l \in DOMAIN StepBlock : IsBlob(StepBlock[k]) /\ ~IsBlob(StepBlock[l])
    /\ BlockGas > BLOCK_RESOURCE_TARGETS
    /\ BlockDataGas > TARGET_DATA_GAS_PER_BLOCK
    /\ RLess(h.price, price)
    /\ excess_data_gas > h.excess_data_gas

(* C24: the price moves toward the target.  From a positive price the     *)
(* committed price is the same exactly when the gas of the Block equals    *)
(* BLOCK_RESOURCE_TARGETS, higher exactly when the gas is above it, lower  *)
(* exactly when the gas is below it.                                       *)
C24_PriceFollowsTarget ==
    (StepDone /\ h.price.n > 0) =>
        /\ (price = h.price) <=> (BlockGas = BLOCK_RESOURCE_TARGETS)
        /\ RLess(h.price, price) <=> (BlockGas > BLOCK_RESOURCE_TARGETS)
        /\ RLess(price, h.price) <=> (BlockGas < BLOCK_RESOURCE_TARGETS)

(* a Block of exactly BLOCK_RESOURCE_TARGETS gas, at a price that is not   *)
(* the initial one, has left the price where it was                        *)
C24_Witness ==
    /\ StepDone
    /\ StepBlock # <<>>
    /\ BlockGas = BLOCK_RESOURCE_TARGETS
    /\ h.price # Rat(1, 1)
    /\ price = h.price

---------------------------------------------------------------------------
(* Properties of fake_exponential (SpecExp). *)
ExpDone == fe.pc = "done"

(* the returned value is the one the recursive definition gives *)
ExpAgreesWithDefinition ==
    ExpDone => fe.result = fake_exponential(fe.factor, fe.numerator, fe.denominator)

(* C11: on numerator 0 fake_exponential returns its factor, whatever the   *)
(* positive factor and denominator: calc_price_data(0) is exactly          *)
(* MIN_DATA_GASPRICE.                                                      *)
C11_ZeroExcessGivesMinPrice ==
    /\ (ExpDone /\ fe.numerator = 0) => fe.result = fe.factor
    /\ calc_price_data(0) = MIN_DATA_GASPRICE

(* the call calc_price_data(0) makes has returned *)
C11_Witness ==
    /\ ExpDone
    /\ fe.numerator = 0
    /\ fe.factor = MIN_DATA_GASPRICE
    /\ fe.denominator = DATA_GASPRICE_UPDATE_FRACTION
    /\ fe.result = MIN_DATA_GASPRICE

(* C12: fake_exponential is non-decreasing in its numerator: a call        *)
(* returns at least what the call on the next smaller numerator returned,  *)
(* for every factor and denominator, the floor divisions notwithstanding.  *)
C12_PriceDataMonotone ==
    (ExpDone /\ fe.calls > 0) => fe.previous <= fe.result

(* the data price steps from 1 to 2 as the excess grows by one blob *)
C12_Witness ==
    /\ ExpDone
    /\ fe.denominator = DATA_GASPRICE_UPDATE_FRACTION
    /\ fe.numerator > 0
    /\ fe.previous = 1
    /\ fe.result = 2

(* C14: every call of fake_exponential returns: the loop, once entered,    *)
(* is left, because the floor division brings numerator_accum to 0.        *)
C14_LoopTerminates == (fe.pc = "loop") ~> (fe.pc = "done")

(* a call on a positive numerator has returned after more than ten         *)
(* iterations, numerator_accum having reached 0                            *)
C14_Witness ==
    /\ ExpDone
    /\ fe.numerator > 0
    /\ fe.i > 10
    /\ fe.numerator_accum = 0

(* C16: the loop is not continued past IterationCap iterations (a fault    *)
(* is reported in its place).                                              *)
C16_IterationCapEnforced ==
    ~(fe.pc = "loop" /\ fe.numerator_accum > 0 /\ fe.i > IterationCap + 1)

===========================================================================
